---- MODULE Spec2Model ----
(***************************************************************************)
(* cosmic-term: the tab registry (segmented_button::Model<SingleSelect>),  *)
(* the control loop App::update, the title derivation App::update_title    *)
(* and the terminal-event relay of App::subscription (src/src/main.rs).    *)
(***************************************************************************)
EXTENDS Naturals, Sequences, FiniteSets, TLC

\* ---------------------------------------------------------------- bounds

\* Number of tabs ever created in one run (slot-map keys 1..MaxTabs).
MaxTabs == 3

\* Number of events one terminal emits in one run.
MaxEmit == 3

\* mpsc::channel(100) of the relay worker, scaled down: the number of
\* envelopes the shared channel holds before a sender waits.
EventChannelCap == 2

\* subscription::channel(.., 100, ..), scaled down: the buffer of the
\* subscription's output channel.
OutputBuffer == 1

\* ------------------------------------------------------------- constants

\* Entity::default(): the null key, never the key of an item.
NullEntity == 0

\* Option::None of a position / of a text lookup.
NoPosition == 99
NoText == "<none>"

\* The titles a tab can carry: the placeholder and one title set by a program.
DefaultTitle == "New Terminal"
Titles == {DefaultTitle, "ssh host"}

\* App::init: terminal_theme.
terminal_theme == "OneHalfDark"

\* Palette indices asked for by ColorRequest; the theme leaves index 1 unset.
ColorIndices == {0, 1}
NoColor == 255
DefaultRgb == 0
ThemeColors == [i \in ColorIndices |-> IF i = 0 THEN 7 ELSE NoColor]

\* Viewport sizes (columns) a terminal can have.
TermSizes == {80, 132}

Entities == 1..MaxTabs

VARIABLES
    tab_model,          \* App.tab_model
    term_event_tx_opt,  \* App.term_event_tx_opt: TRUE is Some(sender)
    terminal_themes,    \* App.terminal_themes: the set of theme names
    header_title,       \* Core: header title set by set_header_title
    window_title,       \* Core: window title set by set_window_title
    last_msg,           \* the message of the last App::update call
    last_cmd,           \* the Command that call returned
    last_io,            \* the terminal calls that call made, in order
    prev_order,         \* tab_model.order when that call started
    prev_active,        \* tab_model.active when that call started
    fwd,                \* per terminal: the envelope its event proxy is sending
    emitted,            \* per terminal: the number of events it has emitted
    event_ch,           \* the shared channel (event_tx, event_rx)
    worker_pc,          \* where the relay worker of App::subscription stands
    worker_msg,         \* the envelope the worker received and is relaying
    output,             \* the subscription's output channel
    output_parked,      \* the output channel's sender is parked
    runtime_queue,      \* the runtime's queue of messages taken from output
    delivered,          \* per terminal: the events App::update has processed
    lock_owner,         \* per terminal: who holds its Mutex
    ctl_io,             \* the terminal calls the running handler has yet to make
    ctl_using,          \* the terminal the running handler is using
    render_using        \* the terminal the renderer is drawing

appvars == <<tab_model, term_event_tx_opt, terminal_themes, header_title,
             window_title, last_msg, last_cmd, last_io, prev_order, prev_active>>

muxvars == <<fwd, emitted, event_ch, worker_pc, worker_msg, output, output_parked,
             runtime_queue, delivered>>

lockvars == <<lock_owner, ctl_io, ctl_using, render_using>>

vars == <<appvars, muxvars, lockvars>>

\* ------------------------------------------- segmented_button::Model

Range(s) == {s[i] : i \in 1..Len(s)}

\* ModelBuilder::default().build()
EmptyModel ==
    [order |-> <<>>, active |-> NullEntity, text |-> <<>>, data |-> <<>>,
     next_key |-> 1]

\* Model::contains_item
contains_item(m, id) == id \in Range(m.order)

\* Model::position (0-based, as u16)
position(m, id) ==
    IF contains_item(m, id)
    THEN (CHOOSE i \in 1..Len(m.order) : m.order[i] = id) - 1
    ELSE NoPosition

\* Model::entity_at
entity_at(m, pos) ==
    IF pos + 1 \in 1..Len(m.order) THEN m.order[pos + 1] ELSE NullEntity

\* Selectable::activate for SingleSelect
activate(m, id) ==
    IF contains_item(m, id) THEN [m EXCEPT !.active = id] ELSE m

\* Model::activate_position
activate_position(m, pos) ==
    IF entity_at(m, pos) # NullEntity THEN activate(m, entity_at(m, pos)) ELSE m

\* Selectable::deactivate for SingleSelect
deactivate(m, id) ==
    IF id = m.active THEN [m EXCEPT !.active = NullEntity] ELSE m

Restrict(f, S) == [k \in S |-> f[k]]

RemoveAt(s, i) == SubSeq(s, 1, i - 1) \o SubSeq(s, i + 1, Len(s))

\* A bug of remove: the item's data stays in the storage.
remove_DataKept(m, id) ==
    IF contains_item(m, id)
    THEN LET d == deactivate(m, id)
         IN  [d EXCEPT !.order = RemoveAt(m.order, position(m, id) + 1),
                       !.text = Restrict(m.text, DOMAIN m.text \ {id})]
    ELSE deactivate(m, id)

\* Model::remove
remove(m, id) ==
    IF contains_item(m, id)
    THEN LET d == deactivate(m, id)
         IN  [d EXCEPT !.order = RemoveAt(m.order, position(m, id) + 1),
                       !.text = Restrict(m.text, DOMAIN m.text \ {id}),
                       !.data = Restrict(m.data, DOMAIN m.data \ {id})]
    ELSE deactivate(m, id)

\* Model::text
text(m, id) == IF id \in DOMAIN m.text THEN m.text[id] ELSE NoText

\* A bug of text_set: the text is written to every item.
text_set_All(m, id, t) ==
    IF contains_item(m, id)
    THEN [m EXCEPT !.text = [k \in DOMAIN m.text \cup {id} |-> t]]
    ELSE m

\* Model::text_set
text_set(m, id, t) ==
    IF contains_item(m, id)
    THEN [m EXCEPT !.text = [k \in DOMAIN m.text \cup {id} |->
                                IF k = id THEN t ELSE m.text[k]]]
    ELSE m

\* Model::data::<Mutex<Terminal>>
has_data(m, id) == id \in DOMAIN m.data

\* Model::data_set::<Mutex<Terminal>>
data_set(m, id, term) ==
    IF contains_item(m, id)
    THEN [m EXCEPT !.data = [k \in DOMAIN m.data \cup {id} |->
                                IF k = id THEN term ELSE m.data[k]]]
    ELSE m

\* A bug of the insert chain: .activate() is left out, so the new tab is only
\* active when it is the first one.
insert_NotActivated(m, t) ==
    LET id == m.next_key
        m1 == [m EXCEPT !.order = Append(m.order, id), !.next_key = id + 1]
        m2 == text_set(m1, id, t)
    IN  IF m.active = NullEntity THEN activate(m2, id) ELSE m2

\* Model::insert().text(t).closable().activate().id()
insert(m, t) ==
    LET id == m.next_key
        m1 == [m EXCEPT !.order = Append(m.order, id), !.next_key = id + 1]
    IN  activate(text_set(m1, id, t), id)

\* Model::iter().next().is_none()
is_empty(m) == Len(m.order) = 0

\* --------------------------------------------------------------- messages

NoEvent == [kind |-> "-", index |-> 0, text |-> ""]

\* alacritty_terminal::event::Event, as App::update matches it
TermEvents ==
    {[kind |-> k, index |-> 0, text |-> ""] :
        k \in {"Bell", "Exit", "ResetTitle", "TextAreaSizeRequest",
               "MouseCursorDirty", "Wakeup", "Other"}}
    \cup {[kind |-> "ColorRequest", index |-> i, text |-> ""] : i \in ColorIndices}
    \cup {[kind |-> "PtyWrite", index |-> 0, text |-> "\\e[?6c"]}
    \cup {[kind |-> "Title", index |-> 0, text |-> t] : t \in Titles \ {DefaultTitle}}

\* enum Message
MsgTabActivate(e) == [type |-> "TabActivate", entity |-> e, event |-> NoEvent]
MsgTabClose(e) == [type |-> "TabClose", entity |-> e, event |-> NoEvent]
MsgTabNew == [type |-> "TabNew", entity |-> NullEntity, event |-> NoEvent]
MsgTermEvent(e, ev) == [type |-> "TermEvent", entity |-> e, event |-> ev]
MsgTermEventTx == [type |-> "TermEventTx", entity |-> NullEntity, event |-> NoEvent]
MsgNone == [type |-> "-", entity |-> NullEntity, event |-> NoEvent]

\* --------------------------------------------------------------- Terminal

\* Terminal::new(entity, term_event_tx.clone(), &term_config, colors.clone())
NewTerminal(colors, size) == [colors |-> colors, size |-> size]

\* The calls App::update makes on a terminal, as entries of last_io.
IoLock(e) == [op |-> "lock", entity |-> e, via |-> "", index |-> 0, arg |-> 0, text |-> ""]
\* f(rgb) of ColorRequest(index, f) and f(size) of TextAreaSizeRequest(f)
IoBuilder(e, via, i, arg) ==
    [op |-> "f", entity |-> e, via |-> via, index |-> i, arg |-> arg, text |-> ""]
\* Terminal::input_no_scroll(bytes)
IoInputNoScroll(e, via, i, arg, txt) ==
    [op |-> "input_no_scroll", entity |-> e, via |-> via, index |-> i, arg |-> arg,
     text |-> txt]
\* The MutexGuard goes out of scope at the end of the match arm.
IoUnlock(e) == [op |-> "unlock", entity |-> e, via |-> "", index |-> 0, arg |-> 0, text |-> ""]
\* Terminal::update()
IoUpdate(e) == [op |-> "update", entity |-> e, via |-> "", index |-> 0, arg |-> 0, text |-> ""]

\* colors()[index].unwrap_or_default()
ColorAt(term, i) == IF term.colors[i] = NoColor THEN DefaultRgb ELSE term.colors[i]

\* -------------------------------------------------------------------- App

WindowSuffix == " -- COSMIC Terminal"

\* The application state App::update reads and writes.
AppState ==
    [tab_model |-> tab_model, term_event_tx_opt |-> term_event_tx_opt,
     header_title |-> header_title, window_title |-> window_title]

\* What one App::update call leaves: the state, the Command, the terminal calls.
Outcome(a, cmd, io) == [app |-> a, cmd |-> cmd, io |-> io]

\* App::update_title
update_title(a) ==
    LET t == text(a.tab_model, a.tab_model.active)
    IN  Outcome([a EXCEPT !.header_title = IF t # NoText THEN t ELSE "",
                          !.window_title = IF t # NoText THEN t \o WindowSuffix
                                           ELSE "COSMIC Terminal"],
                "set_window_title", <<>>)

\* Message::TabActivate(entity)
UpdateTabActivate(a, entity) ==
    update_title([a EXCEPT !.tab_model = activate(a.tab_model, entity)])

\* A bug of the closest-item rule: nothing is activated before the removal.
ActivateClosest_Skipped(m, entity) == m

\* A bug of the closest-item rule: the next tab is preferred to the previous.
ActivateClosest_NextFirst(m, entity) ==
    LET pos == position(m, entity)
    IN  IF pos # NoPosition
        THEN IF pos + 1 < Len(m.order) THEN activate_position(m, pos + 1)
             ELSE IF pos > 0 THEN activate_position(m, pos - 1) ELSE m
        ELSE m

\* Message::TabClose: "Activate closest item"
ActivateClosest(m, entity) ==
    LET pos == position(m, entity)
    IN  IF pos # NoPosition
        THEN IF pos > 0 THEN activate_position(m, pos - 1)
             ELSE activate_position(m, pos + 1)
        ELSE m

\* A bug of TabClose: the last-tab test is made before the item is removed.
UpdateTabClose_TestBeforeRemove(a, entity) ==
    LET m1 == ActivateClosest(a.tab_model, entity)
        a2 == [a EXCEPT !.tab_model = remove(m1, entity)]
    IN  IF is_empty(m1) THEN Outcome(a2, "window_close", <<>>)
        ELSE update_title(a2)

\* Message::TabClose(entity)
UpdateTabClose(a, entity) ==
    LET m1 == ActivateClosest(a.tab_model, entity)
        m2 == remove(m1, entity)
        a2 == [a EXCEPT !.tab_model = m2]
    IN  IF is_empty(m2) THEN Outcome(a2, "window_close", <<>>)
        ELSE update_title(a2)

\* A bug of TabNew: a missing theme does not stop the tab from being created.
UpdateTabNew_ThemeUnchecked(a, themes, size) ==
    IF ~a.term_event_tx_opt THEN Outcome(a, "none", <<>>)
    ELSE LET m1 == insert(a.tab_model, DefaultTitle)
             entity == a.tab_model.next_key
             m2 == data_set(m1, entity, NewTerminal(ThemeColors, size))
         IN  Outcome([a EXCEPT !.tab_model = m2], "none", <<>>)

\* A bug of TabNew: the sender is moved into the terminal (take()) in place
\* of a clone, so the application no longer holds one.
UpdateTabNew_SenderMoved(a, themes, size) ==
    IF ~a.term_event_tx_opt THEN Outcome(a, "none", <<>>)
    ELSE IF terminal_theme \notin themes THEN Outcome(a, "none", <<>>)
    ELSE LET m1 == insert(a.tab_model, DefaultTitle)
             entity == a.tab_model.next_key
             m2 == data_set(m1, entity, NewTerminal(ThemeColors, size))
         IN  Outcome([a EXCEPT !.tab_model = m2, !.term_event_tx_opt = FALSE],
                     "none", <<>>)

\* Message::TabNew
UpdateTabNew(a, themes, size) ==
    IF ~a.term_event_tx_opt THEN Outcome(a, "none", <<>>)
    ELSE IF terminal_theme \notin themes THEN Outcome(a, "none", <<>>)
    ELSE LET m1 == insert(a.tab_model, DefaultTitle)
             entity == a.tab_model.next_key
             m2 == data_set(m1, entity, NewTerminal(ThemeColors, size))
         IN  Outcome([a EXCEPT !.tab_model = m2], "none", <<>>)

\* A bug of ColorRequest: the reply goes to the terminal of the active tab.
OnColorRequest_ToActive(a, entity, event) ==
    LET m == a.tab_model
    IN  IF has_data(m, entity)
        THEN LET rgb == ColorAt(m.data[entity], event.index)
             IN  Outcome(a, "none",
                    <<IoLock(m.active),
                      IoBuilder(m.active, "color", event.index, rgb),
                      IoInputNoScroll(m.active, "color", event.index, rgb, ""),
                      IoUnlock(m.active)>>)
        ELSE Outcome(a, "none", <<>>)

\* TermEvent::ColorRequest(index, f)
OnColorRequest(a, entity, event) ==
    LET m == a.tab_model
    IN  IF has_data(m, entity)
        THEN LET rgb == ColorAt(m.data[entity], event.index)
             IN  Outcome(a, "none",
                    <<IoLock(entity),
                      IoBuilder(entity, "color", event.index, rgb),
                      IoInputNoScroll(entity, "color", event.index, rgb, ""),
                      IoUnlock(entity)>>)
        ELSE Outcome(a, "none", <<>>)

\* TermEvent::PtyWrite(text)
OnPtyWrite(a, entity, event) ==
    IF has_data(a.tab_model, entity)
    THEN Outcome(a, "none",
            <<IoLock(entity), IoInputNoScroll(entity, "pty", 0, 0, event.text),
              IoUnlock(entity)>>)
    ELSE Outcome(a, "none", <<>>)

\* TermEvent::TextAreaSizeRequest(f)
OnTextAreaSizeRequest(a, entity) ==
    LET m == a.tab_model
    IN  IF has_data(m, entity)
        THEN LET sz == m.data[entity].size
             IN  Outcome(a, "none",
                    <<IoLock(entity),
                      IoBuilder(entity, "size", 0, sz),
                      IoInputNoScroll(entity, "size", 0, sz, ""),
                      IoUnlock(entity)>>)
        ELSE Outcome(a, "none", <<>>)

\* A bug of Wakeup: the terminal of the active tab is locked, the terminal
\* of the event is updated.
OnWakeup_ActiveLocked(a, entity) ==
    IF has_data(a.tab_model, entity)
    THEN Outcome(a, "none",
            <<IoLock(a.tab_model.active), IoUpdate(entity),
              IoUnlock(a.tab_model.active)>>)
    ELSE Outcome(a, "none", <<>>)

\* TermEvent::MouseCursorDirty | TermEvent::Wakeup
OnWakeup(a, entity) ==
    IF has_data(a.tab_model, entity)
    THEN Outcome(a, "none", <<IoLock(entity), IoUpdate(entity), IoUnlock(entity)>>)
    ELSE Outcome(a, "none", <<>>)

\* A bug of Exit: the item is removed without the TabClose transition, so
\* no other tab is activated.
OnExit_RemoveOnly(a, entity) ==
    LET m2 == remove(a.tab_model, entity)
        a2 == [a EXCEPT !.tab_model = m2]
    IN  IF is_empty(m2) THEN Outcome(a2, "window_close", <<>>)
        ELSE update_title(a2)

\* TermEvent::Exit: self.update(Message::TabClose(entity))
OnExit(a, entity) == UpdateTabClose(a, entity)

\* Message::TermEvent(entity, event)
UpdateTermEvent(a, entity, event) ==
    LET m == a.tab_model
        k == event.kind
    IN  CASE k = "Bell" -> Outcome(a, "none", <<>>)
          [] k = "ColorRequest" -> OnColorRequest(a, entity, event)
          [] k = "Exit" -> OnExit(a, entity)
          [] k = "PtyWrite" -> OnPtyWrite(a, entity, event)
          [] k = "ResetTitle" ->
                update_title([a EXCEPT !.tab_model = text_set(m, entity, DefaultTitle)])
          [] k = "TextAreaSizeRequest" -> OnTextAreaSizeRequest(a, entity)
          [] k = "Title" ->
                update_title([a EXCEPT !.tab_model = text_set(m, entity, event.text)])
          [] k \in {"MouseCursorDirty", "Wakeup"} -> OnWakeup(a, entity)
          [] OTHER -> Outcome(a, "none", <<>>)

\* A bug of TermEventTx: the sender is not stored.
UpdateTermEventTx_NotStored(a) == Outcome(a, "none", <<>>)

\* Message::TermEventTx(term_event_tx)
UpdateTermEventTx(a) == Outcome([a EXCEPT !.term_event_tx_opt = TRUE], "none", <<>>)

\* App::update: the outcome of one call. size is the viewport a terminal
\* created by this call comes up with.
update(a, themes, msg, size) ==
    CASE msg.type = "TabActivate" -> UpdateTabActivate(a, msg.entity)
      [] msg.type = "TabClose" -> UpdateTabClose(a, msg.entity)
      [] msg.type = "TabNew" -> UpdateTabNew(a, themes, size)
      [] msg.type = "TermEvent" -> UpdateTermEvent(a, msg.entity, msg.event)
      [] msg.type = "TermEventTx" -> UpdateTermEventTx(a)

\* One App::update call as a step of the control loop.
Update(msg, size) ==
    LET r == update(AppState, terminal_themes, msg, size)
    IN  /\ tab_model' = r.app.tab_model
        /\ term_event_tx_opt' = r.app.term_event_tx_opt
        /\ header_title' = r.app.header_title
        /\ window_title' = r.app.window_title
        /\ last_msg' = msg
        /\ last_cmd' = r.cmd
        /\ last_io' = r.io
        /\ prev_order' = tab_model.order
        /\ prev_active' = tab_model.active
        /\ UNCHANGED terminal_themes

\* App::view: whether the tab bar is shown, and the tab whose terminal the
\* terminal_box is built for (none if the active marker has no terminal).
view(a) ==
    LET m == a.tab_model
    IN  [tab_bar |-> Len(m.order) > 1,
         terminal_box |-> IF has_data(m, m.active) THEN m.active ELSE NullEntity]

\* ------------------------------------------------------- the control loop

\* (entity, event) as sent through the shared channel; seq numbers the events
\* of one terminal in the order it emitted them.
Envelope(e, ev, n) == [entity |-> e, event |-> ev, seq |-> n]
NoEnvelope == Envelope(NullEntity, NoEvent, 0)

\* App::init; the theme table either holds the configured theme or does not.
\* The relay worker has not run yet.
Init ==
    /\ tab_model = EmptyModel
    /\ term_event_tx_opt = FALSE
    /\ terminal_themes \in {{terminal_theme}, {"OneHalfLight"}}
    /\ header_title = ""
    /\ window_title = "COSMIC Terminal"
    /\ last_msg = MsgNone
    /\ last_cmd = "set_window_title"
    /\ last_io = <<>>
    /\ prev_order = <<>>
    /\ prev_active = NullEntity
    /\ fwd = [e \in Entities |-> NoEnvelope]
    /\ emitted = [e \in Entities |-> 0]
    /\ event_ch = <<>>
    /\ worker_pc = "send_tx"
    /\ worker_msg = NoEnvelope
    /\ output = <<>>
    /\ output_parked = FALSE
    /\ runtime_queue = <<>>
    /\ delivered = [e \in Entities |-> <<>>]
    /\ lock_owner = [e \in Entities |-> "none"]
    /\ ctl_io = <<>>
    /\ ctl_using = NullEntity
    /\ render_using = NullEntity

\* Keys the slot map has handed out so far.
Created == 1..(tab_model.next_key - 1)

\* The user presses a tab: on_activate(Message::TabActivate).
TabActivate ==
    /\ \E e \in Created : Update(MsgTabActivate(e), 0)
    /\ UNCHANGED <<muxvars, lockvars>>

\* The user closes a tab: on_close(Message::TabClose).
TabClose ==
    /\ \E e \in Created : Update(MsgTabClose(e), 0)
    /\ UNCHANGED <<muxvars, lockvars>>

\* Message::TabNew, from the header button or the relay worker.
TabNew ==
    /\ tab_model.next_key <= MaxTabs
    /\ \E size \in TermSizes : Update(MsgTabNew, size)
    /\ UNCHANGED <<muxvars, lockvars>>

\* Message::TermEvent of a terminal created earlier, removed since or not.
TermEvent ==
    /\ \E e \in Created : \E ev \in TermEvents : Update(MsgTermEvent(e, ev), 0)
    /\ UNCHANGED <<muxvars, lockvars>>

\* Message::TermEventTx, sent once by the relay worker.
TermEventTx ==
    /\ ~term_event_tx_opt
    /\ Update(MsgTermEventTx, 0)
    /\ UNCHANGED <<muxvars, lockvars>>

\* The control loop under every order in which the runtime can hand it
\* messages.
Next == TabActivate \/ TabClose \/ TabNew \/ TermEvent \/ TermEventTx

Spec == Init /\ [][Next]_vars

\* ------------------------------------------------------ the relay pipeline

\* The events the terminals emit in the pipeline runs.
MuxEvents ==
    {ev \in TermEvents : ev.kind = "Wakeup"}

\* The viewport the terminals come up with in the pipeline runs.
MuxSizes == {80}

\* The tabs opened in the pipeline runs: the automatic first one and one more.
MuxEntities == {1, 2}

\* The output channel holds its buffer plus one slot for its one sender: a
\* send that finds the buffer full still puts its message in and parks the
\* sender.
OutputCap == OutputBuffer + 1

\* A message in the output channel; seq is that of the envelope it relays.
Out(msg, n) == [msg |-> msg, seq |-> n]

\* The worker has sent Message::TabNew and the control loop has processed it.
AutoTabDone ==
    /\ worker_pc \notin {"send_tx", "flush_tx", "send_tabnew"}
    /\ \A i \in 1..Len(output) : output[i].msg # MsgTabNew
    /\ \A i \in 1..Len(runtime_queue) : runtime_queue[i].msg # MsgTabNew

\* A terminal emits an event: its event proxy takes it up for sending.
ForwarderEmit ==
    \E e \in Created : \E ev \in MuxEvents :
        /\ fwd[e] = NoEnvelope
        /\ emitted[e] < MaxEmit
        /\ fwd' = [fwd EXCEPT ![e] = Envelope(e, ev, emitted[e] + 1)]
        /\ emitted' = [emitted EXCEPT ![e] = @ + 1]
        /\ UNCHANGED <<appvars, event_ch, worker_pc, worker_msg, output, output_parked,
                       delivered,
                   runtime_queue, lockvars>>

\* A bug of the shared channel: mpsc::unbounded_channel(), a send always
\* finds a permit.
Permits_Unbounded(ch) == 1

\* mpsc::channel(100): the permits the shared channel has left, one for each
\* envelope it can still take.
Permits(ch) == EventChannelCap - Len(ch)

\* The event proxy's send into the shared channel returns once there is room.
ForwarderSend ==
    \E e \in Entities :
        /\ fwd[e] # NoEnvelope
        /\ Permits(event_ch) > 0
        /\ event_ch' = Append(event_ch, fwd[e])
        /\ fwd' = [fwd EXCEPT ![e] = NoEnvelope]
        /\ UNCHANGED <<appvars, emitted, worker_pc, worker_msg, output, output_parked,
                       delivered,
                   runtime_queue, lockvars>>

\* A bug of the relay: try_send in place of send().await, so that a message
\* is dropped when the output channel is full and the worker never waits.
OutputSend_TrySend(out, m) ==
    [ch |-> IF Len(out) < OutputCap THEN Append(out, m) ELSE out, parked |-> FALSE]

\* A bug of the relay: the output channel is unbounded, the send never waits.
OutputSend_Unbounded(out, m) == [ch |-> Append(out, m), parked |-> FALSE]

\* output.send(m).await, its first half: the sender, which is not parked,
\* puts m in the channel (ch) and is parked if the buffer was full already.
\* The second half (the flush) returns once the sender is not parked.
OutputSend(out, m) ==
    [ch |-> Append(out, m), parked |-> Len(out) >= OutputBuffer]

\* output.send(Message::TermEventTx(event_tx)).await.unwrap(): the message is
\* put in the channel; the send returns at once unless the sender is parked.
WorkerSendTx ==
    /\ worker_pc = "send_tx"
    /\ ~output_parked
    /\ LET r == OutputSend(output, Out(MsgTermEventTx, 0))
       IN  /\ output' = r.ch
           /\ output_parked' = r.parked
           /\ worker_pc' = IF r.parked THEN "flush_tx" ELSE "send_tabnew"
    /\ UNCHANGED <<appvars, fwd, emitted, event_ch, worker_msg, delivered,
                   runtime_queue, lockvars>>

\* output.send(Message::TabNew).await.unwrap()
WorkerSendTabNew ==
    /\ worker_pc = "send_tabnew"
    /\ ~output_parked
    /\ LET r == OutputSend(output, Out(MsgTabNew, 0))
       IN  /\ output' = r.ch
           /\ output_parked' = r.parked
           /\ worker_pc' = IF r.parked THEN "flush_tabnew" ELSE "recv"
    /\ UNCHANGED <<appvars, fwd, emitted, event_ch, worker_msg, delivered,
                   runtime_queue, lockvars>>

\* A bug of the relay: the worker takes the newest envelope of the shared
\* channel.
WorkerRecv_Newest ==
    /\ worker_pc = "recv"
    /\ event_ch # <<>>
    /\ worker_msg' = event_ch[Len(event_ch)]
    /\ event_ch' = SubSeq(event_ch, 1, Len(event_ch) - 1)
    /\ worker_pc' = "send_event"
    /\ UNCHANGED <<appvars, fwd, emitted, output, output_parked, delivered,
                   runtime_queue, lockvars>>

\* event_rx.recv().await
WorkerRecv ==
    /\ worker_pc = "recv"
    /\ event_ch # <<>>
    /\ worker_msg' = Head(event_ch)
    /\ event_ch' = Tail(event_ch)
    /\ worker_pc' = "send_event"
    /\ UNCHANGED <<appvars, fwd, emitted, output, output_parked, delivered,
                   runtime_queue, lockvars>>

\* Message::TermEvent(entity, event) of a received envelope
Relayed(env) == Out(MsgTermEvent(env.entity, env.event), env.seq)

\* output.send(Message::TermEvent(entity, event)).await.unwrap()
WorkerSendEvent ==
    /\ worker_pc = "send_event"
    /\ ~output_parked
    /\ LET r == OutputSend(output, Relayed(worker_msg))
       IN  /\ output' = r.ch
           /\ output_parked' = r.parked
           /\ worker_pc' = IF r.parked THEN "flush_event" ELSE "recv"
    /\ worker_msg' = NoEnvelope
    /\ UNCHANGED <<appvars, fwd, emitted, event_ch, delivered,
                   runtime_queue, lockvars>>

\* Where the worker goes on when a send that had to wait returns.
AfterFlush(pc) == IF pc = "flush_tx" THEN "send_tabnew" ELSE "recv"

\* The second half of output.send(m).await for a parked sender: the send
\* returns once the runtime has taken a message, which unparks the sender.
WorkerFlush ==
    /\ worker_pc \in {"flush_tx", "flush_tabnew", "flush_event"}
    /\ ~output_parked
    /\ worker_pc' = AfterFlush(worker_pc)
    /\ UNCHANGED <<appvars, fwd, emitted, event_ch, worker_msg, output, output_parked,
                   delivered,
                   runtime_queue, lockvars>>

\* The runtime takes the next message of the subscription, which unparks
\* the sender, and puts it in its own queue of messages for the application;
\* that queue has no bound.
RuntimeTake ==
    /\ output # <<>>
    /\ runtime_queue' = Append(runtime_queue, Head(output))
    /\ output' = Tail(output)
    /\ output_parked' = FALSE
    /\ UNCHANGED <<appvars, fwd, emitted, event_ch, worker_pc, worker_msg, delivered, lockvars>>

\* The runtime calls App::update with the next message of its queue.
Dispatch ==
    /\ runtime_queue # <<>>
    /\ LET o == Head(runtime_queue)
       IN  /\ \E size \in MuxSizes : Update(o.msg, size)
           /\ delivered' = IF o.msg.type = "TermEvent"
                           THEN [delivered EXCEPT ![o.msg.entity] = Append(@, o.seq)]
                           ELSE delivered
    /\ runtime_queue' = Tail(runtime_queue)
    /\ UNCHANGED <<fwd, emitted, event_ch, worker_pc, worker_msg, output, output_parked, lockvars>>

\* The user presses a tab of the tab bar, which view shows while there is
\* more than one tab.
MuxTabActivate ==
    /\ view(AppState).tab_bar
    /\ \E e \in Range(tab_model.order) : Update(MsgTabActivate(e), 0)
    /\ UNCHANGED <<muxvars, lockvars>>

\* The user closes a tab of the tab bar.
MuxTabClose ==
    /\ view(AppState).tab_bar
    /\ \E e \in Range(tab_model.order) : Update(MsgTabClose(e), 0)
    /\ UNCHANGED <<muxvars, lockvars>>

\* Message::TabNew from the header button, while tabs are left for it.
MuxTabNew ==
    /\ tab_model.next_key + (IF AutoTabDone THEN 0 ELSE 1) \in MuxEntities
    /\ \E size \in MuxSizes : Update(MsgTabNew, size)
    /\ UNCHANGED <<muxvars, lockvars>>

NextMux ==
    \/ MuxTabActivate \/ MuxTabClose \/ MuxTabNew
    \/ ForwarderEmit \/ ForwarderSend
    \/ WorkerSendTx \/ WorkerSendTabNew \/ WorkerRecv \/ WorkerSendEvent
    \/ WorkerFlush
    \/ RuntimeTake \/ Dispatch

\* The relay worker, one task.
Worker ==
    WorkerSendTx \/ WorkerSendTabNew \/ WorkerRecv \/ WorkerSendEvent \/ WorkerFlush

\* The runtime takes the next message of the subscription: the step
\* RuntimeTake makes on the output channel.
OutputTaken == output # <<>> /\ output' = Tail(output)

\* The runtime hands the next message of its queue to App::update: the step
\* Dispatch makes on the queue.
QueueTaken == runtime_queue # <<>> /\ runtime_queue' = Tail(runtime_queue)

\* The executor runs every task that can run: an event proxy's send returns
\* once there is room, the relay worker goes on when it can, and the runtime
\* keeps taking the subscription's messages and keeps calling the control
\* loop with them.
SpecMux ==
    /\ Init /\ [][NextMux]_vars
    /\ WF_vars(ForwarderSend)
    /\ WF_vars(Worker)
    /\ WF_output(OutputTaken)
    /\ WF_runtime_queue(QueueTaken)

\* ------------------------------------------- the terminals' locks

\* The messages the runtime can call App::update with.
LockMessages ==
    (IF term_event_tx_opt THEN {} ELSE {MsgTermEventTx})
    \cup (IF tab_model.next_key \in Entities THEN {MsgTabNew} ELSE {})
    \cup {MsgTabActivate(e) : e \in Created}
    \cup {MsgTabClose(e) : e \in Created}
    \cup {MsgTermEvent(e, ev) : e \in Created, ev \in TermEvents}

\* App::update is called with a message. What it does to the application
\* state is done here; the calls it makes on a terminal are left to be made
\* one by one, and it returns when none is left.
CtlHandle ==
    /\ ctl_io = <<>>
    /\ \E msg \in LockMessages : \E size \in MuxSizes : Update(msg, size)
    /\ ctl_io' = last_io'
    /\ ctl_using' = NullEntity
    /\ UNCHANGED <<muxvars, lock_owner, render_using>>

\* The running handler makes its next call on a terminal: terminal.lock()
\* returns once nobody holds the Mutex; the calls on the terminal use it;
\* the guard is dropped at the end of the arm.
CtlStep ==
    /\ ctl_io # <<>>
    /\ LET c == Head(ctl_io)
       IN  /\ c.op = "lock" => lock_owner[c.entity] = "none"
           /\ lock_owner' =
                 IF c.op = "lock" THEN [lock_owner EXCEPT ![c.entity] = "ctl"]
                 ELSE IF c.op = "unlock" THEN [lock_owner EXCEPT ![c.entity] = "none"]
                 ELSE lock_owner
           /\ ctl_using' = IF c.op \in {"lock", "unlock"} THEN NullEntity ELSE c.entity
    /\ ctl_io' = Tail(ctl_io)
    /\ UNCHANGED <<appvars, muxvars, render_using>>

\* The renderer starts to draw the terminal view built the terminal_box
\* for: it locks the terminal's Mutex, once nobody holds it.
RenderLock ==
    /\ render_using = NullEntity
    /\ LET e == view(AppState).terminal_box
       IN  /\ e # NullEntity
           /\ lock_owner[e] = "none"
           /\ lock_owner' = [lock_owner EXCEPT ![e] = "renderer"]
           /\ render_using' = e
    /\ UNCHANGED <<appvars, muxvars, ctl_io, ctl_using>>

\* The renderer has drawn the terminal and unlocks it.
RenderUnlock ==
    /\ render_using # NullEntity
    /\ lock_owner' = [lock_owner EXCEPT ![render_using] = "none"]
    /\ render_using' = NullEntity
    /\ UNCHANGED <<appvars, muxvars, ctl_io, ctl_using>>

NextLock == CtlHandle \/ CtlStep \/ RenderLock \/ RenderUnlock

\* The control loop, its handlers taken one terminal call at a time, beside
\* the renderer.
SpecLock == Init /\ [][NextLock]_vars

\* ------------------------------------------------------------- properties

\* The last call closed tab e: Message::TabClose(e) or TermEvent(e, Exit).
LastWasTabClose(e) == last_msg = MsgTabClose(e)
LastWasExit(e) == last_msg.type = "TermEvent" /\ last_msg.entity = e
                  /\ last_msg.event.kind = "Exit"

\* 1-based index of e in the order the last call started from.
PrevIndex(e) == CHOOSE i \in 1..Len(prev_order) : prev_order[i] = e

\* C1: the active marker is unset exactly when the registry is empty, and
\* otherwise it is one id of the ordered id set.
C1_ActiveMarkerValid ==
    /\ (tab_model.active = NullEntity) <=> (tab_model.order = <<>>)
    /\ tab_model.order # <<>> => tab_model.active \in Range(tab_model.order)

\* C1 witness: the active tab of several was closed and another one is active.
C1_Witness ==
    /\ \E e \in Entities : LastWasTabClose(e) /\ prev_active = e
    /\ Len(prev_order) = 3
    /\ tab_model.active \in Range(tab_model.order)

\* C2: closing the active tab at position p, with other tabs present, leaves
\* active the tab that was at p-1 if p > 0, and otherwise the one that was at
\* p+1, which is first in the order after the removal.
C2_TieBreak ==
    \A e \in Entities :
        (LastWasTabClose(e) /\ prev_active = e /\ e \in Range(prev_order)
            /\ Len(prev_order) > 1)
        => LET i == PrevIndex(e)
           IN  /\ i > 1 => tab_model.active = prev_order[i - 1]
               /\ i = 1 => /\ tab_model.active = prev_order[2]
                           /\ tab_model.active = tab_model.order[1]

\* C2 witness: [A,B,C] with C active, C closed, B active.
C2_Witness ==
    /\ Len(prev_order) = 3
    /\ LastWasTabClose(prev_order[3])
    /\ prev_active = prev_order[3]
    /\ tab_model.active = prev_order[2]

\* C3: closing a tab that is present and not active removes it from the order
\* and leaves the active marker on the tab that was active before.
C3_CloseInactiveKeepsActive ==
    \A e \in Entities :
        (LastWasTabClose(e) /\ e \in Range(prev_order) /\ prev_active # e)
        => /\ tab_model.order = RemoveAt(prev_order, PrevIndex(e))
           /\ tab_model.active = prev_active

\* C4: a close (TabClose or Exit) of the last remaining tab empties the
\* registry, unsets the active marker, returns the window-close command and
\* leaves the titles as they were; a close that leaves a tab in the registry
\* returns the title command, with the titles derived from the active tab.
C4_TeardownOnLastClose ==
    [][\A e \in Entities :
        (last_msg' = MsgTabClose(e) \/ last_msg' = MsgTermEvent(e, [kind |-> "Exit", index |-> 0, text |-> ""]))
        => /\ tab_model.order = <<e>> =>
                /\ tab_model'.order = <<>>
                /\ tab_model'.active = NullEntity
                /\ last_cmd' = "window_close"
                /\ header_title' = header_title
                /\ window_title' = window_title
           /\ tab_model'.order # <<>> =>
                /\ last_cmd' = "set_window_title"
                /\ header_title' = text(tab_model', tab_model'.active)
                /\ window_title' = header_title' \o WindowSuffix]_vars

\* C4 witness: the only tab exited and the window-close command was returned.
C4_Witness ==
    /\ Len(prev_order) = 1
    /\ LastWasExit(prev_order[1])
    /\ tab_model.order = <<>>
    /\ last_cmd = "window_close"
    /\ header_title = "ssh host"

\* The entries of last_io made by operation op.
IoOf(op) == SelectSeq(last_io, LAMBDA c : c.op = op)

\* C7: a ColorRequest or TextAreaSizeRequest of a tab in the registry calls
\* the response builder once, with that terminal's colour at the index (the
\* default if unset) or that terminal's size, writes the result once through
\* input_no_scroll to that terminal, and touches no other terminal.
C7_QueryReplyToSameSession ==
    \A e \in Entities :
        (last_msg.type = "TermEvent" /\ last_msg.entity = e
            /\ last_msg.event.kind \in {"ColorRequest", "TextAreaSizeRequest"}
            /\ e \in Range(tab_model.order))
        => LET term == tab_model.data[e]
               want == IF last_msg.event.kind = "ColorRequest"
                       THEN IF term.colors[last_msg.event.index] = NoColor
                            THEN DefaultRgb
                            ELSE term.colors[last_msg.event.index]
                       ELSE term.size
               via == IF last_msg.event.kind = "ColorRequest" THEN "color" ELSE "size"
           IN  /\ IoOf("f") = <<IoBuilder(e, via, last_msg.event.index, want)>>
               /\ IoOf("input_no_scroll") =
                     <<IoInputNoScroll(e, via, last_msg.event.index, want, "")>>
               /\ \A i \in 1..Len(last_io) : last_io[i].entity = e

\* C7 witness: a colour query for an unset index from a tab that is not the
\* active one, among two tabs of different sizes.
C7_Witness ==
    /\ last_msg.type = "TermEvent" /\ last_msg.event.kind = "ColorRequest"
    /\ last_msg.event.index = 1
    /\ Len(tab_model.order) = 2
    /\ last_msg.entity \in Range(tab_model.order)
    /\ last_msg.entity # tab_model.active
    /\ Len(IoOf("input_no_scroll")) = 1

\* C8: an event of a tab that is no longer in the registry changes nothing:
\* the registry, the header and window titles stay, nothing is written.
C8_StaleEventIgnored ==
    [][\A e \in Entities :
        (last_msg'.type = "TermEvent" /\ last_msg'.entity = e
            /\ e \notin Range(tab_model.order) /\ e < tab_model.next_key)
        => /\ tab_model' = tab_model
           /\ header_title' = header_title
           /\ window_title' = window_title
           /\ last_io' = <<>>]_vars

\* C9: a TabNew that arrives before the sender is stored, or when the theme
\* is not in the theme table, leaves the registry and the titles unchanged
\* and returns no command.
C9_RejectedTabNew ==
    [][(last_msg' = MsgTabNew
            /\ (~term_event_tx_opt \/ terminal_theme \notin terminal_themes))
        => /\ tab_model' = tab_model
           /\ header_title' = header_title
           /\ window_title' = window_title
           /\ last_cmd' = "none"
           /\ last_io' = <<>>]_vars

\* C9 witness: TabNew was processed with the sender stored and the theme
\* missing, and there is no tab.
C9_Witness ==
    /\ last_msg = MsgTabNew
    /\ term_event_tx_opt
    /\ terminal_theme \notin terminal_themes
    /\ tab_model.order = <<>>
    /\ tab_model.next_key = 1

\* C10: an accepted TabNew appends one fresh id at the end of the order,
\* keeps the ids before it in order, titles the new tab "New Terminal" and
\* makes it the active one.
C10_AcceptedTabNew ==
    (last_msg = MsgTabNew /\ term_event_tx_opt
        /\ terminal_theme \in terminal_themes)
    => LET n == Len(tab_model.order)
           id == tab_model.order[n]
       IN  /\ n = Len(prev_order) + 1
           /\ SubSeq(tab_model.order, 1, n - 1) = prev_order
           /\ id \notin Range(prev_order)
           /\ id = tab_model.next_key - 1
           /\ text(tab_model, id) = "New Terminal"
           /\ tab_model.active = id
           /\ has_data(tab_model, id)

\* C10 witness: a third tab was opened while the first one was active.
C10_Witness ==
    /\ last_msg = MsgTabNew
    /\ Len(prev_order) = 2
    /\ prev_active = prev_order[1]
    /\ Len(tab_model.order) = 3
    /\ tab_model.active = tab_model.order[3]

\* The seq numbers of terminal e's envelopes in a sequence of envelopes.
SeqsOf(envs, e) ==
    LET mine == SelectSeq(envs, LAMBDA v : v.entity = e)
    IN  [i \in 1..Len(mine) |-> mine[i].seq]

\* The messages the worker has sent and App::update has not been called
\* with, oldest first: in the runtime's queue, in the output channel.
InFlight == runtime_queue \o output

\* The envelopes relayed by the messages in flight.
OutputEnvelopes ==
    LET evs == SelectSeq(InFlight, LAMBDA o : o.msg.type = "TermEvent")
    IN  [i \in 1..Len(evs) |-> Envelope(evs[i].msg.entity, evs[i].msg.event, evs[i].seq)]

\* Terminal e's events from the one processed first to the one emitted last:
\* processed, in the runtime's queue and the output channel, held by the
\* worker, in the shared channel, held by the event proxy.
Pipeline(e) ==
    delivered[e] \o SeqsOf(OutputEnvelopes, e) \o SeqsOf(<<worker_msg>>, e)
        \o SeqsOf(event_ch, e) \o SeqsOf(<<fwd[e]>>, e)

Increasing(s) == \A i, j \in 1..Len(s) : i < j => s[i] < s[j]

\* C5: the control loop processes the events of one terminal in the order
\* the terminal emitted them, and they stand in that order in the shared
\* channel, the output channel and the runtime's queue,
\* whatever other terminals emit and whatever the user does meanwhile.
C5_PerSessionOrder ==
    \A e \in Entities : Increasing(delivered[e]) /\ Increasing(Pipeline(e))

\* C5 witness: two events of terminal 1 were processed, in order, around one
\* of terminal 2, whose next two events stand in the shared channel in the
\* order it emitted them, after the user closed a tab.
C5_Witness ==
    /\ delivered[1] = <<1, 2>>
    /\ delivered[2] = <<1>>
    /\ SeqsOf(event_ch, 2) = <<2, 3>>
    /\ Len(tab_model.order) = 1

\* All emitted events have been processed.
Drained == \A e \in Entities : Len(delivered[e]) = emitted[e]

\* Every sender waits: an event proxy holds an envelope while the shared
\* channel is full, and the worker waits in its send, parked, with the
\* output channel full.
Saturated ==
    /\ \E e \in Entities : fwd[e] # NoEnvelope
    /\ Len(event_ch) = EventChannelCap
    /\ worker_pc = "flush_event"
    /\ output_parked
    /\ Len(output) = OutputCap

\* C6: no emitted event is lost or duplicated on the way (each is, once and
\* in order, processed or still in the pipeline), and every emitted event is
\* processed in the end.
C6_NoLossAndDrain ==
    /\ [](\A e \in Entities : Pipeline(e) = [i \in 1..emitted[e] |-> i])
    /\ []<>Drained

\* C6 witness: the pipeline is saturated and a sender waits.
C6_Witness == Saturated /\ ~Drained

\* C11: whenever a call of App::update has returned and the registry is not
\* empty, the header title is the display title of the active tab and the
\* window title is that title followed by the application name.
C11_TitlesFollowActive ==
    tab_model.order # <<>>
    => /\ header_title = text(tab_model, tab_model.active)
       /\ window_title = text(tab_model, tab_model.active) \o WindowSuffix

ExitEvent == [kind |-> "Exit", index |-> 0, text |-> ""]

\* C12: a call with TermEvent(e, Exit) leaves the registry, the titles, the
\* stored sender and the returned command that a call with TabClose(e) leaves
\* from the same state.
C12_ExitIsTabClose ==
    [][\A e \in Entities :
        last_msg' = MsgTermEvent(e, ExitEvent)
        => LET r == update(AppState, terminal_themes, MsgTabClose(e), 0)
           IN  /\ tab_model' = r.app.tab_model
               /\ header_title' = r.app.header_title
               /\ window_title' = r.app.window_title
               /\ term_event_tx_opt' = r.app.term_event_tx_opt
               /\ last_cmd' = r.cmd
               /\ last_io' = r.io]_vars

\* C12 witness: of three tabs the first, which was active, exited; the tab
\* after it is active and the titles were derived again.
C12_Witness ==
    /\ Len(prev_order) = 3
    /\ LastWasExit(prev_order[1])
    /\ prev_active = prev_order[1]
    /\ tab_model.order = <<prev_order[2], prev_order[3]>>
    /\ tab_model.active = prev_order[2]
    /\ last_cmd = "set_window_title"

\* The senders of the shared channel that main.rs holds: the one the worker
\* is about to send, the one in a TermEventTx message on its way, the one
\* stored in App.term_event_tx_opt. The clones given to Terminal::new come on
\* top.
SendersHeld ==
    (IF worker_pc = "send_tx" THEN 1 ELSE 0)
    + Cardinality({i \in 1..Len(InFlight) : InFlight[i].msg = MsgTermEventTx})
    + (IF term_event_tx_opt THEN 1 ELSE 0)

\* event_rx.recv() returns None: the channel is empty and no sender is left.
RecvEndOfStream == worker_pc = "recv" /\ event_ch = <<>> /\ SendersHeld = 0

\* C13: while a tab is registered a sender of the shared channel is alive,
\* so the worker's recv cannot return the end of the stream.
C13_SenderAliveWhileRegistered ==
    tab_model.order # <<>> => (SendersHeld >= 1 /\ ~RecvEndOfStream)

\* C13 witness: one of two tabs was closed, its terminal is gone, and the
\* worker waits in recv on the empty channel with no event on its way.
C13_Witness ==
    /\ Len(tab_model.order) = 1
    /\ tab_model.next_key = 3
    /\ worker_pc = "recv"
    /\ event_ch = <<>>
    /\ \A e \in Entities : fwd[e] = NoEnvelope
    /\ output = <<>>
    /\ runtime_queue = <<>>

\* The envelopes the event proxies have sent and App::update has not been
\* called with: in the shared channel, held by the worker, in the output
\* channel, in the runtime's queue.
Pending ==
    Len(event_ch) + (IF worker_msg # NoEnvelope THEN 1 ELSE 0) + Len(OutputEnvelopes)

\* C14 as stated: the envelopes sent and not yet processed never number more
\* than the capacity of the shared channel.
C14_PendingWithinCapacity == Pending <= EventChannelCap

\* C14 as amended: the envelopes sent and not yet received by the relay
\* worker, those the shared channel holds, never number more than the
\* capacity of the shared channel.
C14_ChannelWithinCapacity == Len(event_ch) <= EventChannelCap

\* C14 witness: the shared channel is full, an event proxy waits to send,
\* and with those the worker has passed on more envelopes are sent and not
\* processed than the shared channel can hold.
C14_Witness ==
    /\ Len(event_ch) = EventChannelCap
    /\ \E e \in Entities : fwd[e] # NoEnvelope
    /\ Pending > EventChannelCap

\* C15: TabActivate of a tab that is not in the registry, or of the tab that
\* is active already, leaves the registry and both titles as they were.
C15_ActivateNoOp ==
    [][\A e \in Entities :
        (last_msg' = MsgTabActivate(e)
            /\ (e \notin Range(tab_model.order) \/ e = tab_model.active))
        => /\ tab_model' = tab_model
           /\ header_title' = header_title
           /\ window_title' = window_title]_vars

\* C16: Title(t) or ResetTitle of a tab in the registry sets the display
\* title of that tab to t or to "New Terminal" and leaves the order, the
\* active marker, the other display titles and the terminals as they were;
\* if the tab is the active one the header title is the new title and the
\* window title is the new title followed by the application name.
C16_RenameFrame ==
    [][\A e \in Entities :
        (last_msg'.type = "TermEvent" /\ last_msg'.entity = e
            /\ last_msg'.event.kind \in {"Title", "ResetTitle"}
            /\ e \in Range(tab_model.order))
        => LET t == IF last_msg'.event.kind = "Title" THEN last_msg'.event.text
                    ELSE "New Terminal"
           IN  /\ tab_model'.order = tab_model.order
               /\ tab_model'.active = tab_model.active
               /\ tab_model'.data = tab_model.data
               /\ DOMAIN tab_model'.text = DOMAIN tab_model.text
               /\ \A k \in DOMAIN tab_model.text :
                     tab_model'.text[k] = IF k = e THEN t ELSE tab_model.text[k]
               /\ last_io' = <<>>
               /\ e = tab_model.active =>
                     /\ header_title' = t
                     /\ window_title' = t \o WindowSuffix]_vars

\* C16 witness: of two tabs with different titles the active one was given
\* the title "ssh host", which the header shows.
C16_Witness ==
    /\ last_msg.type = "TermEvent" /\ last_msg.event.kind = "Title"
    /\ Len(tab_model.order) = 2
    /\ last_msg.entity = tab_model.active
    /\ header_title = "ssh host"
    /\ \E k \in Range(tab_model.order) : text(tab_model, k) = "New Terminal"

\* The terminals whose Mutex the control loop holds.
CtlLocks == {e \in Entities : lock_owner[e] = "ctl"}

\* C17: the control loop and the renderer never use the same terminal at
\* the same time; the control loop holds at most one terminal's lock, only
\* that of the tab the message it handles is tagged with, and none once the
\* handler has returned.
C17_LockDiscipline ==
    /\ ctl_using # NullEntity => ctl_using # render_using
    /\ Cardinality(CtlLocks) <= 1
    /\ CtlLocks \subseteq {last_msg.entity}
    /\ ctl_io = <<>> => (CtlLocks = {} /\ ctl_using = NullEntity)

\* C17 witness: the handler of an event of the active tab waits for the
\* lock of that tab's terminal, which the renderer holds while it draws.
C17_Witness ==
    /\ ctl_io # <<>>
    /\ Head(ctl_io).op = "lock"
    /\ Head(ctl_io).entity = render_using
    /\ last_msg.type = "TermEvent"
    /\ last_msg.entity = render_using

\* C18: after every call a tab is in the order exactly if a terminal is
\* attached to it; the active tab of a non-empty registry has a terminal for
\* view to show, and a removed tab has none.
C18_RegistryAndStoreInStep ==
    /\ DOMAIN tab_model.data = Range(tab_model.order)
    /\ tab_model.order # <<>> =>
          /\ tab_model.active # NullEntity
          /\ view(AppState).terminal_box = tab_model.active
    /\ \A e \in Created \ Range(tab_model.order) : ~has_data(tab_model, e)

\* C18 witness: one of three tabs was closed; the two others keep their
\* terminals and the closed one has none.
C18_Witness ==
    /\ Len(prev_order) = 3
    /\ \E e \in Range(prev_order) : LastWasTabClose(e) /\ ~has_data(tab_model, e)
    /\ Len(tab_model.order) = 2
    /\ \A e \in Range(tab_model.order) : has_data(tab_model, e)

\* C19: on its way to the control loop the TabNew of the worker stands
\* behind its TermEventTx unless that one has been processed; when App::update
\* is called with the worker's TabNew the sender is stored, so the tab is
\* created if the theme is there; a stored sender stays stored.
C19_StartupOrder ==
    [][/\ (runtime_queue # <<>> /\ Head(runtime_queue).msg = MsgTabNew
            /\ runtime_queue' = Tail(runtime_queue))
          => /\ term_event_tx_opt
             /\ terminal_theme \in terminal_themes
                => Len(tab_model'.order) = Len(tab_model.order) + 1
       /\ term_event_tx_opt => term_event_tx_opt'
       /\ \A i \in 1..Len(InFlight') :
             InFlight'[i].msg = MsgTabNew
             => \/ term_event_tx_opt'
                \/ \E j \in 1..(i - 1) : InFlight'[j].msg = MsgTermEventTx]_vars

\* C19 witness: the worker's TabNew has been processed and the first tab is
\* there, the only one ever created.
C19_Witness ==
    /\ AutoTabDone
    /\ last_msg = MsgTabNew
    /\ term_event_tx_opt
    /\ tab_model.order = <<1>>
    /\ tab_model.next_key = 2

\* C20: once a close has emptied the registry no later call returns the
\* window-close command again.
C20_TeardownOnce ==
    [][(tab_model.order = <<>> /\ tab_model.next_key > 1)
        => last_cmd' # "window_close"]_vars
====
